---- MODULE Spec2Model ----
(***************************************************************************)
(* A model of the pathfinding core of the repository:                      *)
(*   src/Python/pathfinding/pathfinder.py  (class Pathfinder)              *)
(* The Pathfinder reads a top-down map image, finds the spawn and target   *)
(* markers and the wall pixels, builds a dilated collision map, searches   *)
(* a path over the 8-connected grid and turns the path into timed stick    *)
(* commands.                                                               *)
(*                                                                         *)
(* Coordinates are <<x, y>> as in the source (x to the right, y down).     *)
(* A dict is a function whose DOMAIN is the dict's key set; a list is a    *)
(* sequence; a set is a set.  None is the empty tuple.                     *)
(***************************************************************************)
EXTENDS Integers, Sequences, FiniteSets, TLC

VARIABLES
    width, height, pixels,          \* self.width, self.height, self.pixels
    spawn_pos, target_pos,          \* self.spawn_pos, self.target_pos
    walls, collision_map,           \* self.walls, self.collision_map (set of True cells)
    iterOrder,                      \* iteration order of the interpreter's set type
    pc,                             \* position of the caller / running method
    open_set, came_from,            \* locals of find_path
    g_score, f_score,
    current, path,
    ret, prev_ret, calls,           \* last returned path, the one before, completed calls
    err,                            \* exception raised to the caller, or NoError
    initial_direction, move_speed,  \* self.initial_direction, self.move_speed
    look_sensitivity, unit_scale,   \* self.look_sensitivity, self.unit_scale
    arg_path,                       \* parameter path of generate_controller_inputs
    inputs, current_facing, idx,    \* its locals inputs, current_facing and i
    ret_inputs, gen_calls,          \* the list it returned, its completed calls
    prev_arg_path, prev_ret_inputs, \* path and returned list of the call before
    draws, rng0,                    \* every value the module-level generator of random
                                    \* has handed out; how many when the call began
    other_left,                     \* loop rounds another Pathfinder's call still has to run
    plan_pc,                        \* position of plan_and_execute
    _actions, act_i,                \* ActionGroup._actions; the loop index i of line 71
    sent,                           \* the action lists posted to the controller service
    exec_result, plan_ret,          \* what execute() returned; what plan_and_execute returned
    frame_time_ms, input_lag_ms,    \* GameFrameCalibrator's fields: <<>> for None, <<v>> for a value
    cal_pc,                         \* position of the calibrator's caller / running method
    num_samples, sample_i,          \* calibrate's parameter and its loop index i
    samples,                        \* calibrate's local list samples (input_lags is its copy)
    seen,                           \* per sample of this call: baseline and polled brightness
    cal_op, cal_err, cal_ret,       \* the calibrator method last called, what it raised, returned
    wait_time_ms,                   \* the time wait_game_frames last waited, <<>> before
    cal_done, cal_ops               \* calibrate calls that returned; calibrator calls made

searchVars == <<open_set, came_from, g_score, f_score, current, path, ret, prev_ret, calls>>

paramVars == <<initial_direction, move_speed, look_sensitivity, unit_scale>>

synthVars == <<arg_path, inputs, current_facing, idx, ret_inputs, gen_calls,
               prev_arg_path, prev_ret_inputs, draws, rng0, other_left>>

coreVars == <<width, height, pixels, spawn_pos, target_pos, walls, collision_map,
              iterOrder, pc, err>>

planVars == <<plan_pc, _actions, act_i, sent, exec_result, plan_ret>>

calVars == <<frame_time_ms, input_lag_ms, cal_pc, num_samples, sample_i, samples, seen,
             cal_op, cal_err, cal_ret, wait_time_ms, cal_done, cal_ops>>

vars == <<width, height, pixels, spawn_pos, target_pos, walls, collision_map,
          iterOrder, pc, open_set, came_from, g_score, f_score, current, path,
          ret, prev_ret, calls, err, initial_direction, move_speed,
          look_sensitivity, unit_scale, arg_path, inputs, current_facing, idx,
          ret_inputs, gen_calls, prev_arg_path, prev_ret_inputs, draws, rng0,
          other_left, plan_pc, _actions, act_i, sent, exec_result, plan_ret,
          frame_time_ms, input_lag_ms, cal_pc, num_samples, sample_i, samples, seen,
          cal_op, cal_err, cal_ret, wait_time_ms, cal_done, cal_ops>>

(***************************************************************************)
(* Bounds of the model.                                                    *)
(***************************************************************************)
MaxW == 3          \* widest image of the small family
MaxH == 2          \* tallest image of the small family
MaxBlue == 2       \* most spawn-marker pixels in an image
MaxYellow == 2     \* most target-marker pixels in an image
MaxRed == 2        \* most wall pixels in an image
MaxCalls == 2      \* find_path calls made on one Pathfinder
NumOrders == 3     \* fixed set iteration orders tried on the large grid
BigN == 10         \* side of the large square grid
MaxRedBig == 1     \* most wall pixels in the large grid
MaxMarker == 3     \* most pixels of one marker where only the parser runs
GrowN == 9         \* longer side of the images where the growth of the walls is examined
MaxRedGrow == 2    \* most wall pixels in such an image
MaxSamples == 2    \* largest num_samples handed to calibrate
MaxWaitMs == 2     \* max_wait_ms of the calibrator, the number of polls of one sample
MaxCalOps == 3     \* calls made on one GameFrameCalibrator
MaxPlanMarks == 1  \* most target pixels, and most wall pixels, where plan_and_execute runs
MaxPathLen == 3    \* longest path handed to generate_controller_inputs
MaxGenCalls == 1   \* calls of generate_controller_inputs where its parameters vary
MaxRepeat == 2     \* calls of generate_controller_inputs where it is called again
MaxOtherRounds == 2 \* most loop rounds of one call running in another thread
MaxOtherDraws == 4 \* most values the calls in another thread take from the generator
PathSpan == 2      \* the waypoints of such a path lie in a PathSpan x PathSpan square

None == <<>>
NoError == "none"

(***************************************************************************)
(* Images.  A pixel is an RGB triple; the palette has one colour of each   *)
(* class the thresholds of the parser tell apart, and a background.        *)
(***************************************************************************)
BluePx == <<0, 0, 255>>
YellowPx == <<255, 255, 0>>
RedPx == <<255, 0, 0>>
WhitePx == <<255, 255, 255>>

Cells(w, h) == (0 .. w - 1) \X (0 .. h - 1)

Paint(w, h, B, Y, R) ==
    [c \in Cells(w, h) |-> IF c \in B THEN BluePx
                           ELSE IF c \in Y THEN YellowPx
                           ELSE IF c \in R THEN RedPx
                           ELSE WhitePx]

RECURSIVE SubsetsUpTo(_, _)
SubsetsUpTo(S, n) ==
    IF n = 0 THEN {{}}
    ELSE SubsetsUpTo(S, n - 1) \cup {T \cup {c} : T \in SubsetsUpTo(S, n - 1), c \in S}

(***************************************************************************)
(* Scene parser.                                                           *)
(***************************************************************************)
RECURSIVE SumCoord(_, _)
SumCoord(S, k) ==
    IF S = {} THEN 0
    ELSE LET c == CHOOSE c \in S : TRUE IN c[k] + SumCoord(S \ {c}, k)

\* int(np.mean(coords)) of a non-empty set of non-negative coordinates
MeanInt(S, k) == SumCoord(S, k) \div Cardinality(S)

\* the set S written out member by member (a filter is otherwise kept as a
\* predicate and re-evaluated at every membership test)
AsSet(S) == {x : x \in S}

blue_mask(px) == {c \in DOMAIN px : px[c][3] > 200 /\ px[c][1] < 100 /\ px[c][2] < 100}
yellow_mask(px) == {c \in DOMAIN px : px[c][1] > 200 /\ px[c][2] > 200 /\ px[c][3] < 100}
red_mask(px) == {c \in DOMAIN px : px[c][1] > 200 /\ px[c][2] < 100 /\ px[c][3] < 100}

\* lines 59 and 73: len(coords[0]) == 0
MarkerMissing_strict(mask) == Cardinality(mask) <= 1

MarkerMissing(mask) == Cardinality(mask) = 0

_find_spawn(px) == <<MeanInt(blue_mask(px), 1), MeanInt(blue_mask(px), 2)>>
_find_target(px) == <<MeanInt(yellow_mask(px), 1), MeanInt(yellow_mask(px), 2)>>
_find_walls(px) == AsSet(red_mask(px))

(***************************************************************************)
(* Occupancy grid builder.                                                 *)
(***************************************************************************)
Abs(n) == IF n < 0 THEN -n ELSE n

\* mutant: the loops of lines 104-105 over every cell
DilatePass_anySource(coll, w, h) ==
    coll \cup {c \in Cells(w, h) :
                 \E d \in coll : Abs(c[1] - d[1]) <= 1 /\ Abs(c[2] - d[2]) <= 1}

\* one pass: every True cell of the interior sets its in-bounds neighbours
DilatePass(coll, w, h) ==
    LET inner == {d \in coll : d[1] \in 1 .. w - 2 /\ d[2] \in 1 .. h - 2}
    IN coll \cup {c \in Cells(w, h) :
                    \E d \in inner : Abs(c[1] - d[1]) <= 1 /\ Abs(c[2] - d[2]) <= 1}

DilationPasses == 3

RECURSIVE Dilate(_, _, _, _)
Dilate(coll, w, h, n) ==
    IF n = 0 THEN coll ELSE Dilate(AsSet(DilatePass(coll, w, h)), w, h, n - 1)

_create_collision_map(ws, w, h) ==
    Dilate(AsSet(ws \cap Cells(w, h)), w, h, DilationPasses)

(***************************************************************************)
(* Grid path search.                                                       *)
(***************************************************************************)
\* mutant: the y term forgotten
_heuristic_xonly(a, b) == Abs(a[1] - b[1])

_heuristic(a, b) == Abs(a[1] - b[1]) + Abs(a[2] - b[2])

\* mutant: <= for < at the upper bounds
InBounds_offbyone(c) == 0 <= c[1] /\ c[1] <= width /\ 0 <= c[2] /\ c[2] <= height

InBounds(c) == 0 <= c[1] /\ c[1] < width /\ 0 <= c[2] /\ c[2] < height

\* mutant: the four diagonal offsets left out
_get_neighbors_orthogonal(pos) ==
    {n \in {<<pos[1] + dx, pos[2] + dy>> : dx \in {-1, 0, 1}, dy \in {-1, 0, 1}} :
        /\ n # pos
        /\ (n[1] = pos[1] \/ n[2] = pos[2])
        /\ InBounds(n)
        /\ n \notin collision_map}

\* mutant: a diagonal step refused between two blocked cells
_get_neighbors_nocorner(pos) ==
    {n \in {<<pos[1] + dx, pos[2] + dy>> : dx \in {-1, 0, 1}, dy \in {-1, 0, 1}} :
        /\ n # pos
        /\ InBounds(n)
        /\ n \notin collision_map
        /\ ~(<<pos[1], n[2]>> \in collision_map /\ <<n[1], pos[2]>> \in collision_map)}

\* mutant: the occupancy test of line 133 left out
_get_neighbors_nocollision(pos) ==
    {n \in {<<pos[1] + dx, pos[2] + dy>> : dx \in {-1, 0, 1}, dy \in {-1, 0, 1}} :
        /\ n # pos
        /\ InBounds(n)}

\* mutant: the bounds test of line 132 left out
_get_neighbors_nobounds(pos) ==
    {n \in {<<pos[1] + dx, pos[2] + dy>> : dx \in {-1, 0, 1}, dy \in {-1, 0, 1}} :
        /\ n # pos
        /\ n \notin collision_map}

_get_neighbors(pos) ==
    {n \in {<<pos[1] + dx, pos[2] + dy>> : dx \in {-1, 0, 1}, dy \in {-1, 0, 1}} :
        /\ n # pos
        /\ InBounds(n)
        /\ n \notin collision_map}

\* Slot of a cell in the set's table under iteration order k > 0.
\* (a table of 32 slots, the cell hashed linearly; equal slots in scan order)
Orders == 1 .. NumOrders
SlotRank(k, c) ==
    (((2 * k - 1) * c[1] + k * c[2]) % 32) * 10000 + c[1] * 100 + c[2]

\* members of the frontier with the lowest f_score
SetMin(S) == CHOOSE m \in S : \A k \in S : m <= k

ArgMin(os, f) ==
    LET m == SetMin({f[c] : c \in os})
    IN {c \in os : f[c] = m}

\* mutant: min(open_set) without its key, the least cell in tuple order
MinOpen_nokey(os, f) ==
    {c \in os : \A d \in os : c[1] < d[1] \/ (c[1] = d[1] /\ c[2] <= d[2])}

\* mutant: an iteration order that is not fixed from one call to the next
MinOpen_unordered(os, f) == ArgMin(os, f)

\* values min(open_set, key=f_score) can return: the first minimal member in
\* the set's iteration order.  Order 0 is the language's guarantee (a set is
\* unordered: any minimal member); an order k > 0 is one fixed iteration order.
MinOpen(os, f) ==
    LET A == ArgMin(os, f)
    IN IF iterOrder = 0 THEN A
       ELSE LET r == SetMin({SlotRank(iterOrder, c) : c \in A})
            IN {c \in A : SlotRank(iterOrder, c) = r}

\* line 173: the relaxation test
Improves_always(g, n, tentative_g) == TRUE

Improves_orEqual(g, n, tentative_g) == n \notin DOMAIN g \/ tentative_g <= g[n]

Improves(g, n, tentative_g) == n \notin DOMAIN g \/ tentative_g < g[n]

\* mutant: the extracted cell stays on the frontier
RemoveCurrent_kept(os, c) == os

\* line 168
RemoveCurrent(os, c) == os \ {c}

\* mutant: the path left in goal-to-start order
Reverse_not(s) == s

Reverse(s) == [i \in 1 .. Len(s) |-> s[Len(s) + 1 - i]]


(***************************************************************************)
(* Input synthesizer.                                                      *)
(*                                                                         *)
(* Numbers.  move_speed, unit_scale and look_sensitivity are floats in the *)
(* source; the model gives them integral values.  An angle is kept as a    *)
(* direction vector <<vx, vy>> (y up) that points along it, so that the    *)
(* sine and cosine of the difference of two angles are the cross and dot   *)
(* product over the product of the lengths.  A stick value is kept in      *)
(* thousandths, truncated towards zero; a duration is in milliseconds.     *)
(***************************************************************************)
\* candidate values of move_speed and unit_scale (a negative one, zero, the
\* default and one that does not divide 1000)
ParamValues == {-1, 0, 1, 3}

\* candidate initial directions, in degrees
Facings == {0, 90}

\* math.radians at line 35, for the multiples of 45 degrees
Radians(deg) ==
    CASE deg = 0 -> <<1, 0>>
      [] deg = 45 -> <<1, 1>>
      [] deg = 90 -> <<0, 1>>
      [] deg = 135 -> <<-1, 1>>
      [] deg = 180 -> <<-1, 0>>
      [] deg = 225 -> <<-1, -1>>
      [] deg = 270 -> <<0, -1>>
      [] deg = 315 -> <<1, -1>>

\* the largest r with r * r <= n, searched between lo and hi
RECURSIVE IsqrtIn(_, _, _)
IsqrtIn(n, lo, hi) ==
    IF lo >= hi THEN lo
    ELSE LET mid == (lo + hi + 1) \div 2
         IN IF mid * mid <= n THEN IsqrtIn(n, mid, hi) ELSE IsqrtIn(n, lo, mid - 1)

\* math.sqrt, rounded down to an integer
Isqrt(n) == IsqrtIn(n, 0, 46340)

Sign(n) == IF n > 0 THEN 1 ELSE IF n < 0 THEN -1 ELSE 0

RECURSIVE Gcd(_, _)
Gcd(a, b) == IF b = 0 THEN a ELSE Gcd(b, a % b)

\* line 297: math.atan2(-dy, dx), as the shortest integer vector along the
\* angle, so that equal angles are equal values; atan2(0, 0) is 0
Atan2(dyNeg, dx) ==
    IF dx = 0 /\ dyNeg = 0 THEN <<1, 0>>
    ELSE LET g == Gcd(Abs(dx), Abs(dyNeg)) IN <<dx \div g, dyNeg \div g>>

Norm2(v) == v[1] * v[1] + v[2] * v[2]

\* sin and cos of (angle of t) - (angle of f), in thousandths
SinDiff(t, f) ==
    LET cross == f[1] * t[2] - f[2] * t[1]
    IN Sign(cross) * Isqrt((1000000 * cross * cross) \div (Norm2(f) * Norm2(t)))

CosDiff(t, f) ==
    LET dot == f[1] * t[1] + f[2] * t[2]
    IN Sign(dot) * Isqrt((1000000 * dot * dot) \div (Norm2(f) * Norm2(t)))

\* max(-1.0, min(1.0, v))
Clamp_none(v) == v

Clamp(v) == IF v > 1000 THEN 1000 ELSE IF v < -1000 THEN -1000 ELSE v

\* lines 213-241
_calculate_move_input(current_pos, target, facing) ==
    LET dx == target[1] - current_pos[1]
        dy == target[2] - current_pos[2]
        t == Atan2(-dy, dx)
        stick_x == SinDiff(t, facing)
        stick_y == CosDiff(t, facing)
        magnitude == Isqrt(stick_x * stick_x + stick_y * stick_y)
    IN IF dx = 0 /\ dy = 0 THEN <<0, 0>>
       ELSE IF stick_x * stick_x + stick_y * stick_y > 1000000
       THEN <<(stick_x * 1000) \div magnitude, (stick_y * 1000) \div magnitude>>
       ELSE <<stick_x, stick_y>>

\* lines 258-271
_calculate_look_input_posCos(facing, target_facing) ==
    <<Clamp(SinDiff(target_facing, facing) * look_sensitivity),
      Clamp(CosDiff(target_facing, facing) * look_sensitivity)>>

_calculate_look_input(facing, target_facing) ==
    <<Clamp(SinDiff(target_facing, facing) * look_sensitivity),
      Clamp(-CosDiff(target_facing, facing) * look_sensitivity)>>

\* line 312, in thousandths
look_variation == 100

\* values random.uniform(-look_variation, look_variation) is modelled to
\* draw: the two ends and the middle of the interval
Jitters == {-look_variation, 0, look_variation}

\* line 273: the default of step_time_ms
step_time_ms == 50

\* line 301 raises ZeroDivisionError when a divisor is zero
DivisionByZero == unit_scale = 0 \/ move_speed = 0

\* lines 300-301: int((distance / unit_scale) / move_speed * 1000), int()
\* truncating towards zero
RawDuration(dx, dy) ==
    LET k == unit_scale * move_speed
    IN Sign(k) * (Isqrt((dx * dx + dy * dy) * 1000000) \div Abs(k))

Max_second(a, b) == b

Max(a, b) == IF a >= b THEN a ELSE b

\* line 302
MoveDuration(dx, dy) == Max(step_time_ms, RawDuration(dx, dy))

\* lines 291-324: the command of the segment from a to b, facing as given,
\* with the jitter drawn for the two look axes
Command(a, b, facing, jx, jy) ==
    LET dx == b[1] - a[1]
        dy == b[2] - a[2]
        target_facing == Atan2(-dy, dx)
        look == _calculate_look_input(facing, target_facing)
    IN [move |-> _calculate_move_input(a, b, facing),
        look |-> <<Clamp(look[1] + jx), Clamp(look[2] + jy)>>,
        duration |-> MoveDuration(dx, dy),
        target_facing |-> target_facing]

\* line 327: current_facing = target_facing
NextFacing_kept(facing, target_facing) == facing

NextFacing(facing, target_facing) == target_facing

\* line 290: the number of rounds of the loop, range(len(path) - 1)
LoopRange_short(p) == Len(p) - 2

LoopRange(p) == Len(p) - 1

\* the paths a caller hands over: up to MaxPathLen waypoints of a square
PathPoints == Cells(PathSpan, PathSpan)

\* the path of the worked example with facing north, and a diagonal segment
\* of two cells
ExamplePaths == {<< <<0, 10>>, <<0, 0>> >>, << <<0, 0>>, <<2, 2>> >>}

\* the paths handed over where the call is repeated: the empty path and the
\* paths of two waypoints along the row of the two-pixel image
CallPaths == {<<>>} \cup [1 .. 2 -> Cells(2, 1)]

ArgPaths == UNION {[1 .. n -> PathPoints] : n \in 0 .. MaxPathLen} \cup ExamplePaths

(***************************************************************************)
(* Initial states: an image has been chosen, no Pathfinder exists yet.     *)
(***************************************************************************)
Unconstructed ==
    /\ spawn_pos = None /\ target_pos = None
    /\ walls = None /\ collision_map = None
    /\ pc = "new"
    /\ open_set = {} /\ came_from = <<>> /\ g_score = <<>> /\ f_score = <<>>
    /\ current = None /\ path = <<>>
    /\ ret = None /\ prev_ret = None /\ calls = 0
    /\ err = NoError
    /\ arg_path = <<>> /\ inputs = <<>> /\ current_facing = None /\ idx = 0
    /\ ret_inputs = <<>> /\ gen_calls = 0
    /\ prev_arg_path = <<>> /\ prev_ret_inputs = <<>>
    /\ draws = <<>> /\ rng0 = 0 /\ other_left = 0
    /\ plan_pc = "none" /\ _actions = <<>> /\ act_i = 0
    /\ sent = <<>> /\ exec_result = None /\ plan_ret = None
    /\ frame_time_ms = None /\ input_lag_ms = None
    /\ cal_pc = "new" /\ num_samples = 0 /\ sample_i = 0
    /\ samples = <<>> /\ seen = <<>>
    /\ cal_op = "none" /\ cal_err = NoError /\ cal_ret = None
    /\ wait_time_ms = None
    /\ cal_done = 0 /\ cal_ops = 0

\* the defaults of lines 20-22, facing east
DefaultParams ==
    /\ initial_direction = Radians(0)
    /\ move_speed = 1 /\ look_sensitivity = 1 /\ unit_scale = 1

\* an image of the small family has been loaded
SmallImage ==
    \E w \in 1 .. MaxW, h \in 1 .. MaxH :
      \E B \in SubsetsUpTo(Cells(w, h), MaxBlue) :
        \E Y \in SubsetsUpTo(Cells(w, h) \ B, MaxYellow) :
          \E R \in SubsetsUpTo(Cells(w, h) \ (B \cup Y), MaxRed) :
             /\ width = w /\ height = h
             /\ pixels = Paint(w, h, B, Y, R)

\* every image of the small family, any minimal member first
Init ==
    /\ SmallImage
    /\ iterOrder = 0
    /\ DefaultParams
    /\ Unconstructed

\* every image of the small family, under each fixed iteration order
InitTwice ==
    /\ SmallImage
    /\ iterOrder \in Orders
    /\ DefaultParams
    /\ Unconstructed

\* the large square image, spawn marker in the top-left corner and target
\* marker in the bottom-right corner, wall pixels (if any) on the other
\* diagonal, which every route crosses; under each fixed iteration order
WallSites == {<<i, BigN - 1 - i>> : i \in 0 .. BigN - 1}

InitDet ==
    /\ \E R \in SubsetsUpTo(WallSites, MaxRedBig) :
         /\ width = BigN /\ height = BigN
         /\ pixels = Paint(BigN, BigN, {<<0, 0>>}, {<<BigN - 1, BigN - 1>>}, R)
    /\ iterOrder \in Orders
    /\ DefaultParams
    /\ Unconstructed

\* a two-pixel image; the parameters of the constructor range over
\* ParamValues and Facings
InitSynth ==
    /\ width = 2 /\ height = 1
    /\ pixels = Paint(2, 1, {<<0, 0>>}, {<<1, 0>>}, {})
    /\ iterOrder = 0
    /\ initial_direction \in {Radians(d) : d \in Facings}
    /\ move_speed \in ParamValues
    /\ unit_scale \in ParamValues
    /\ look_sensitivity = 1
    /\ Unconstructed

\* the two-pixel image; only the calibrator is used
InitCal ==
    /\ width = 2 /\ height = 1
    /\ pixels = Paint(2, 1, {<<0, 0>>}, {<<1, 0>>}, {})
    /\ iterOrder = 0
    /\ DefaultParams
    /\ Unconstructed

\* the two-pixel image and the default parameters, facing east or north
InitCalls ==
    /\ width = 2 /\ height = 1
    /\ pixels = Paint(2, 1, {<<0, 0>>}, {<<1, 0>>}, {})
    /\ iterOrder = 0
    /\ initial_direction \in {Radians(d) : d \in Facings}
    /\ move_speed = 1 /\ look_sensitivity = 1 /\ unit_scale = 1
    /\ Unconstructed

\* every image of up to MaxW x MaxH pixels with up to MaxBlue spawn pixels
\* and up to MaxPlanMarks target pixels and wall pixels; default parameters
InitPlan ==
    /\ \E w \in 1 .. MaxW, h \in 1 .. MaxH :
         \E B \in SubsetsUpTo(Cells(w, h), MaxBlue) :
           \E Y \in SubsetsUpTo(Cells(w, h) \ B, MaxPlanMarks) :
             \E R \in SubsetsUpTo(Cells(w, h) \ (B \cup Y), MaxPlanMarks) :
                /\ width = w /\ height = h
                /\ pixels = Paint(w, h, B, Y, R)
    /\ iterOrder = 0
    /\ DefaultParams
    /\ Unconstructed

\* every image of up to MaxW x MaxH pixels with up to MaxMarker pixels of each
\* marker and no wall
InitParse ==
    /\ \E w \in 1 .. MaxW, h \in 1 .. MaxH :
         \E B \in SubsetsUpTo(Cells(w, h), MaxMarker) :
           \E Y \in SubsetsUpTo(Cells(w, h) \ B, MaxMarker) :
              /\ width = w /\ height = h
              /\ pixels = Paint(w, h, B, Y, {})
    /\ iterOrder = 0
    /\ DefaultParams
    /\ Unconstructed

\* images of 3 or GrowN columns and 2 or GrowN rows with up to MaxRedGrow
\* wall pixels anywhere but under the two marker pixels, which sit in
\* opposite corners or next to them
InitGrow ==
    /\ \E w \in {3, GrowN}, h \in {2, GrowN} :
         \E m \in {0, 1} :
           \E R \in SubsetsUpTo(Cells(w, h) \ {<<m, 0>>, <<w - 1 - m, h - 1>>}, MaxRedGrow) :
              /\ width = w /\ height = h
              /\ pixels = Paint(w, h, {<<m, 0>>}, {<<w - 1 - m, h - 1>>}, R)
    /\ iterOrder = 0
    /\ DefaultParams
    /\ Unconstructed

\* candidate values of look_sensitivity: a negative one, the default and one
\* that drives the products of line 264-265 past 1
LookValues == {-2, 1, 3}

\* the multiples of 45 degrees
AllFacings == {0, 45, 90, 135, 180, 225, 270, 315}

\* the two-pixel image, the default speed and scale; the initial direction
\* ranges over AllFacings and look_sensitivity over LookValues
InitLook ==
    /\ width = 2 /\ height = 1
    /\ pixels = Paint(2, 1, {<<0, 0>>}, {<<1, 0>>}, {})
    /\ iterOrder = 0
    /\ initial_direction \in {Radians(d) : d \in AllFacings}
    /\ move_speed = 1
    /\ unit_scale = 1
    /\ look_sensitivity \in LookValues
    /\ Unconstructed

(***************************************************************************)
(* Pathfinder.__init__ (lines 40-51).                                      *)
(***************************************************************************)
__init__ ==
    /\ pc = "new"
    /\ IF MarkerMissing(blue_mask(pixels))
       THEN /\ err' = "ValueError" /\ pc' = "failed"
            /\ UNCHANGED <<spawn_pos, target_pos, walls, collision_map>>
       ELSE IF MarkerMissing(yellow_mask(pixels))
       THEN /\ spawn_pos' = _find_spawn(pixels)
            /\ err' = "ValueError" /\ pc' = "failed"
            /\ UNCHANGED <<target_pos, walls, collision_map>>
       ELSE /\ spawn_pos' = _find_spawn(pixels)
            /\ target_pos' = _find_target(pixels)
            /\ walls' = _find_walls(pixels)
            /\ collision_map' = _create_collision_map(_find_walls(pixels), width, height)
            /\ pc' = "idle"
            /\ UNCHANGED err
    /\ UNCHANGED <<width, height, pixels, iterOrder>>
    /\ UNCHANGED <<searchVars, paramVars, synthVars, planVars>>
    /\ UNCHANGED calVars

(***************************************************************************)
(* Pathfinder.find_path.                                                   *)
(***************************************************************************)
\* lines 145-152: the call and the set-up of the search
find_path_call ==
    /\ pc = "idle"
    /\ calls < MaxCalls
    /\ open_set' = {spawn_pos}
    /\ came_from' = <<>>
    /\ g_score' = [c \in {spawn_pos} |-> 0]
    /\ f_score' = [c \in {spawn_pos} |-> _heuristic(spawn_pos, target_pos)]
    /\ current' = None
    /\ path' = <<>>
    /\ pc' = "search"
    /\ UNCHANGED <<width, height, pixels, spawn_pos, target_pos, walls, collision_map,
                   iterOrder, ret, prev_ret, calls, err>>
    /\ UNCHANGED <<paramVars, synthVars>>
    /\ UNCHANGED calVars

\* find_path called from outside plan_and_execute
find_path_begin == find_path_call /\ UNCHANGED planVars

\* returning p to the caller
Return(p) ==
    /\ ret' = p
    /\ prev_ret' = IF calls = 0 THEN None ELSE ret
    /\ calls' = calls + 1
    /\ pc' = "idle"

\* lines 173-177 applied to every neighbour of cur
Relaxed(cur) ==
    {n \in _get_neighbors(cur) : Improves(g_score, n, g_score[cur] + _heuristic(cur, n))}

\* lines 154-180: one round of the while loop
find_path_loop ==
    /\ pc = "search"
    /\ IF open_set = {}
       THEN \* line 180
            /\ Return(<<>>)
            /\ UNCHANGED <<open_set, came_from, g_score, f_score, current, path>>
       ELSE \E cur \in MinOpen(open_set, f_score) :
              /\ current' = cur
              /\ IF cur = target_pos
                 THEN \* line 160
                      /\ path' = <<>>
                      /\ pc' = "walk"
                      /\ UNCHANGED <<open_set, came_from, g_score, f_score, ret, prev_ret, calls>>
                 ELSE LET upd == Relaxed(cur)
                          tg(n) == g_score[cur] + _heuristic(cur, n)
                      IN /\ came_from' = [n \in DOMAIN came_from \cup upd |->
                                            IF n \in upd THEN cur ELSE came_from[n]]
                         /\ g_score' = [n \in DOMAIN g_score \cup upd |->
                                            IF n \in upd THEN tg(n) ELSE g_score[n]]
                         /\ f_score' = [n \in DOMAIN f_score \cup upd |->
                                            IF n \in upd THEN tg(n) + _heuristic(n, target_pos)
                                            ELSE f_score[n]]
                         /\ open_set' = RemoveCurrent(open_set, cur) \cup upd
                         /\ UNCHANGED <<path, ret, prev_ret, calls, pc>>
    /\ UNCHANGED <<width, height, pixels, spawn_pos, target_pos, walls, collision_map,
                   iterOrder, err>>
    /\ UNCHANGED <<paramVars, synthVars, planVars>>
    /\ UNCHANGED calVars

\* lines 161-166: one round of the reconstruction loop, or its exit
find_path_walk ==
    /\ pc = "walk"
    /\ IF current \in DOMAIN came_from
       THEN /\ path' = Append(path, current)
            /\ current' = came_from[current]
            /\ UNCHANGED <<ret, prev_ret, calls, pc>>
       ELSE /\ path' = Reverse(Append(path, spawn_pos))
            /\ Return(Reverse(Append(path, spawn_pos)))
            /\ UNCHANGED current
    /\ UNCHANGED <<width, height, pixels, spawn_pos, target_pos, walls, collision_map,
                   iterOrder, open_set, came_from, g_score, f_score, err>>
    /\ UNCHANGED <<paramVars, synthVars, planVars>>
    /\ UNCHANGED calVars

(***************************************************************************)
(* Pathfinder.generate_controller_inputs.                                  *)
(***************************************************************************)
\* returning the list of commands to the caller
ReturnInputs(cmds) ==
    /\ ret_inputs' = cmds
    /\ gen_calls' = gen_calls + 1
    /\ pc' = "idle"

\* lines 284-288: the call, the early return and the set-up of the loop
generate_call_keepFacing(p) ==
    /\ pc = "idle"
    /\ arg_path' = p
    /\ prev_arg_path' = arg_path
    /\ prev_ret_inputs' = ret_inputs
    /\ rng0' = Len(draws)
    /\ IF Len(p) < 2
       THEN /\ ReturnInputs(<<>>)
            /\ UNCHANGED <<inputs, current_facing, idx>>
       ELSE /\ inputs' = <<>>
            /\ current_facing' = IF current_facing = None THEN initial_direction
                                 ELSE current_facing
            /\ idx' = 0
            /\ pc' = "synth"
            /\ UNCHANGED <<ret_inputs, gen_calls>>
    /\ UNCHANGED <<width, height, pixels, spawn_pos, target_pos, walls, collision_map,
                   iterOrder, err, draws, other_left>>
    /\ UNCHANGED <<searchVars, paramVars>>
    /\ UNCHANGED calVars

generate_call(p) ==
    /\ pc = "idle"
    /\ arg_path' = p
    /\ prev_arg_path' = arg_path
    /\ prev_ret_inputs' = ret_inputs
    /\ rng0' = Len(draws)
    /\ IF Len(p) < 2
       THEN /\ ReturnInputs(<<>>)
            /\ UNCHANGED <<inputs, current_facing, idx>>
       ELSE /\ inputs' = <<>>
            /\ current_facing' = initial_direction
            /\ idx' = 0
            /\ pc' = "synth"
            /\ UNCHANGED <<ret_inputs, gen_calls>>
    /\ UNCHANGED <<width, height, pixels, spawn_pos, target_pos, walls, collision_map,
                   iterOrder, err, draws, other_left>>
    /\ UNCHANGED <<searchVars, paramVars>>
    /\ UNCHANGED calVars

\* generate_controller_inputs called from outside plan_and_execute
generate_begin(p) == generate_call(p) /\ UNCHANGED planVars

\* lines 290-329: one round of the for loop, or its end and the return
generate_step ==
    /\ pc = "synth"
    /\ IF idx >= LoopRange(arg_path)
       THEN \* line 329
            /\ ReturnInputs(inputs)
            /\ UNCHANGED <<inputs, current_facing, idx, err, draws>>
       ELSE IF DivisionByZero
       THEN \* line 301 raises
            /\ err' = "ZeroDivisionError"
            /\ pc' = "raised"
            /\ UNCHANGED <<inputs, current_facing, idx, ret_inputs, gen_calls, draws>>
       ELSE \* lines 313-314: two values from the generator all callers share
            \E jx \in Jitters, jy \in Jitters :
              LET cmd == Command(arg_path[idx + 1], arg_path[idx + 2], current_facing, jx, jy)
              IN /\ inputs' = Append(inputs, cmd)
                 /\ draws' = draws \o <<jx, jy>>
                 /\ current_facing' = NextFacing(current_facing, cmd.target_facing)
                 /\ idx' = idx + 1
                 /\ UNCHANGED <<pc, ret_inputs, gen_calls, err>>
    /\ UNCHANGED <<width, height, pixels, spawn_pos, target_pos, walls, collision_map,
                   iterOrder, arg_path, prev_arg_path, prev_ret_inputs, rng0, other_left>>
    /\ UNCHANGED <<searchVars, paramVars, planVars>>
    /\ UNCHANGED calVars

\* a call of generate_controller_inputs on another Pathfinder, in another
\* thread, enters its loop (line 290) with n rounds to run; that object's
\* fields and locals are its own and are not kept here
other_begin(n) ==
    /\ other_left = 0
    /\ other_left' = n
    /\ UNCHANGED <<width, height, pixels, spawn_pos, target_pos, walls, collision_map,
                   iterOrder, pc, err>>
    /\ UNCHANGED <<searchVars, paramVars, planVars>>
    /\ UNCHANGED calVars
    /\ UNCHANGED <<arg_path, inputs, current_facing, idx, ret_inputs, gen_calls,
                   prev_arg_path, prev_ret_inputs, draws, rng0>>

\* lines 313-314 of that call: one round takes its two values from the same
\* generator
other_step ==
    /\ other_left > 0
    /\ other_left' = other_left - 1
    /\ \E jx \in Jitters, jy \in Jitters : draws' = draws \o <<jx, jy>>
    /\ UNCHANGED <<width, height, pixels, spawn_pos, target_pos, walls, collision_map,
                   iterOrder, pc, err>>
    /\ UNCHANGED <<searchVars, paramVars, planVars>>
    /\ UNCHANGED calVars
    /\ UNCHANGED <<arg_path, inputs, current_facing, idx, ret_inputs, gen_calls,
                   prev_arg_path, prev_ret_inputs, rng0>>

(***************************************************************************)
(* ActionGroup (xbox_api/action_group.py) and                              *)
(* ControllerPathfinder.plan_and_execute (controller_pathfinder.py).       *)
(***************************************************************************)
\* action_group.py lines 32-35, 201-206 and 239-244: the entry each method
\* appends to _actions
wait(milliseconds) == [Type |-> "wait", Milliseconds |-> milliseconds]

hold_left_stick(x, y, milliseconds) ==
    [Type |-> "holdleftstick", X |-> x, Y |-> y, Milliseconds |-> milliseconds]

hold_right_stick(x, y, milliseconds) ==
    [Type |-> "holdrightstick", X |-> x, Y |-> y, Milliseconds |-> milliseconds]

\* controller_pathfinder.py line 82: the gap between two steps, in ms
StepGap == 10

\* line 81: i < len(inputs) - 1
NeedsWait_always(i, n) == TRUE

NeedsWait(i, n) == i < n - 1

\* lines 53 and 62: not path, not inputs
IsEmpty_never(s) == FALSE

IsEmpty(s) == s = <<>>

\* line 51: plan_and_execute is called and calls find_path
plan_find ==
    /\ plan_pc = "none"
    /\ find_path_call
    /\ plan_pc' = "find"
    /\ UNCHANGED <<_actions, act_i, sent, exec_result, plan_ret>>

\* lines 53-60: find_path has returned; no path ends the call with False,
\* a path is handed to generate_controller_inputs
plan_generate ==
    /\ plan_pc = "find"
    /\ pc = "idle"
    /\ IF IsEmpty(ret)
       THEN /\ plan_ret' = FALSE
            /\ plan_pc' = "done"
            /\ UNCHANGED <<coreVars, searchVars, paramVars, synthVars>>
            /\ UNCHANGED calVars
       ELSE /\ generate_call(ret)
            /\ plan_pc' = "gen"
            /\ UNCHANGED plan_ret
    /\ UNCHANGED <<_actions, act_i, sent, exec_result>>

\* lines 62-69: generate_controller_inputs has returned; no input ends the
\* call with False, otherwise a new ActionGroup is recorded into
plan_record ==
    /\ plan_pc = "gen"
    /\ pc = "idle"
    /\ IF IsEmpty(ret_inputs)
       THEN /\ plan_ret' = FALSE
            /\ plan_pc' = "done"
            /\ UNCHANGED <<_actions, act_i>>
       ELSE /\ _actions' = <<>>
            /\ act_i' = 0
            /\ plan_pc' = "queue"
            /\ UNCHANGED plan_ret
    /\ UNCHANGED <<sent, exec_result>>
    /\ UNCHANGED <<coreVars, searchVars, paramVars, synthVars>>
    /\ UNCHANGED calVars

\* lines 71-82: one round of the loop over inputs, or its end
plan_queue ==
    /\ plan_pc = "queue"
    /\ IF act_i >= Len(ret_inputs)
       THEN /\ plan_pc' = "execute"
            /\ UNCHANGED <<_actions, act_i>>
       ELSE LET input_data == ret_inputs[act_i + 1]
                holds == << hold_left_stick(input_data.move[1], input_data.move[2],
                                            input_data.duration),
                            hold_right_stick(input_data.look[1], input_data.look[2],
                                             input_data.duration) >>
            IN /\ _actions' = _actions \o holds \o
                                 (IF NeedsWait(act_i, Len(ret_inputs))
                                  THEN <<wait(StepGap)>> ELSE <<>>)
               /\ act_i' = act_i + 1
               /\ UNCHANGED plan_pc
    /\ UNCHANGED <<sent, exec_result, plan_ret>>
    /\ UNCHANGED <<coreVars, searchVars, paramVars, synthVars>>
    /\ UNCHANGED calVars

\* action_group.py lines 314-328: nothing queued is a success without a
\* request; otherwise the whole list goes out in one request, which the
\* service answers with success or not, or which fails
execute ==
    IF _actions = <<>>
    THEN /\ exec_result' = TRUE
         /\ UNCHANGED sent
    ELSE /\ sent' = Append(sent, _actions)
         /\ exec_result' \in BOOLEAN

\* lines 85-88: execute() is called, its result dropped, True returned
plan_execute ==
    /\ plan_pc = "execute"
    /\ execute
    /\ plan_ret' = TRUE
    /\ plan_pc' = "done"
    /\ UNCHANGED <<_actions, act_i>>
    /\ UNCHANGED <<coreVars, searchVars, paramVars, synthVars>>
    /\ UNCHANGED calVars

(***************************************************************************)
(* GameFrameCalibrator (game_timing/frame_calibration.py).  Brightness is  *)
(* in hundredths; an Optional value is <<>> for None and <<v>> for v.      *)
(* Times are in thousandths of a millisecond.  The key presses and sleeps  *)
(* of calibrate act on the game only and are left out.                     *)
(***************************************************************************)
Some(v) == <<v>>

\* line 19: the default brightness_threshold, 0.15
brightness_threshold == 15

\* what a screenshot can show: nothing (None), a dark or a bright screen
Shots == {None, Some(30), Some(50)}

\* mutant: every screenshot taken for the overlay
_is_overlay_visible_always(baseline_brightness, current_brightness) == TRUE

\* lines 82-83
_is_overlay_visible(baseline_brightness, current_brightness) ==
    baseline_brightness - current_brightness >= brightness_threshold

\* line 129: max_checks, one poll per millisecond of max_wait_ms
max_checks == MaxWaitMs

\* lines 131-145: the polls of one sample at which the overlay is seen
Hits(baseline, polled) ==
    {k \in DOMAIN polled : /\ polled[k] # None
                            /\ _is_overlay_visible(baseline[1], polled[k][1])}

RECURSIVE Sum(_)
Sum(s) == IF s = <<>> THEN 0 ELSE Head(s) + Sum(Tail(s))

\* line 216: sum(input_lags) / len(input_lags)
Average(s) == (Sum(s) * 1000) \div Len(s)

\* line 222: 1000.0 / 30.0
FrameTime == 1000000 \div 30

\* lines 29-34
GameFrameCalibrator__init__ ==
    /\ cal_pc = "new"
    /\ frame_time_ms' = None
    /\ input_lag_ms' = None
    /\ cal_pc' = "idle"
    /\ UNCHANGED <<num_samples, sample_i, samples, seen, cal_op, cal_err, cal_ret,
                   wait_time_ms, cal_done, cal_ops>>
    /\ UNCHANGED <<coreVars, searchVars, paramVars, synthVars, planVars>>

\* lines 99-105: calibrate is called
calibrate_begin(n) ==
    /\ cal_pc = "idle"
    /\ cal_ops < MaxCalOps
    /\ num_samples' = n
    /\ sample_i' = 0
    /\ samples' = <<>>
    /\ seen' = <<>>
    /\ cal_op' = "calibrate"
    /\ cal_err' = NoError
    /\ cal_ret' = None
    /\ cal_pc' = "sampling"
    /\ cal_ops' = cal_ops + 1
    /\ UNCHANGED <<frame_time_ms, input_lag_ms, wait_time_ms, cal_done>>
    /\ UNCHANGED <<coreVars, searchVars, paramVars, synthVars, planVars>>

\* lines 107-188: one round of the loop over the samples
calibrate_sample ==
    /\ cal_pc = "sampling"
    /\ sample_i < num_samples
    /\ \E baseline \in Shots :
         IF baseline = None
         THEN \* lines 115-117
              /\ seen' = Append(seen, <<baseline, <<>>>>)
              /\ UNCHANGED samples
         ELSE \E polled \in [1 .. max_checks -> Shots] :
                /\ seen' = Append(seen, <<baseline, polled>>)
                /\ IF Hits(baseline, polled) = {}
                   THEN UNCHANGED samples
                   ELSE samples' = Append(samples, SetMin(Hits(baseline, polled)))
    /\ sample_i' = sample_i + 1
    /\ UNCHANGED <<frame_time_ms, input_lag_ms, cal_pc, num_samples, cal_op, cal_err,
                   cal_ret, wait_time_ms, cal_done, cal_ops>>
    /\ UNCHANGED <<coreVars, searchVars, paramVars, synthVars, planVars>>

\* lines 193-236: after the loop
calibrate_end ==
    /\ cal_pc = "sampling"
    /\ sample_i = num_samples
    /\ IF samples = <<>>
       THEN \* line 194
            /\ cal_err' = "RuntimeError"
            /\ UNCHANGED <<frame_time_ms, input_lag_ms, cal_ret, cal_done>>
       ELSE /\ input_lag_ms' = Some(Average(samples))
            /\ frame_time_ms' = Some(FrameTime)
            /\ cal_ret' = Some([frame_time_ms |-> FrameTime,
                                 input_lag_ms |-> Average(samples),
                                 samples |-> samples,
                                 num_samples |-> Len(samples)])
            /\ cal_done' = cal_done + 1
            /\ UNCHANGED cal_err
    /\ cal_pc' = "idle"
    /\ UNCHANGED <<num_samples, sample_i, samples, seen, cal_op, wait_time_ms, cal_ops>>
    /\ UNCHANGED <<coreVars, searchVars, paramVars, synthVars, planVars>>

\* lines 246-262
wait_game_frames(num_frames) ==
    /\ cal_pc = "idle"
    /\ cal_ops < MaxCalOps
    /\ cal_op' = "wait_game_frames"
    /\ cal_ret' = None
    /\ IF frame_time_ms = None
       THEN /\ cal_err' = "RuntimeError"
            /\ UNCHANGED wait_time_ms
       ELSE /\ cal_err' = NoError
            /\ wait_time_ms' = Some(num_frames * frame_time_ms[1])
    /\ cal_ops' = cal_ops + 1
    /\ UNCHANGED <<frame_time_ms, input_lag_ms, cal_pc, num_samples, sample_i, samples,
                   seen, cal_done>>
    /\ UNCHANGED <<coreVars, searchVars, paramVars, synthVars, planVars>>

\* lines 274-277; seconds in hundredths
seconds_to_frames(seconds) ==
    /\ cal_pc = "idle"
    /\ cal_ops < MaxCalOps
    /\ cal_op' = "seconds_to_frames"
    /\ IF frame_time_ms = None
       THEN /\ cal_err' = "RuntimeError"
            /\ cal_ret' = None
       ELSE /\ cal_err' = NoError
            /\ cal_ret' = Some((seconds * 30) \div 100)
    /\ cal_ops' = cal_ops + 1
    /\ UNCHANGED <<frame_time_ms, input_lag_ms, cal_pc, num_samples, sample_i, samples,
                   seen, wait_time_ms, cal_done>>
    /\ UNCHANGED <<coreVars, searchVars, paramVars, synthVars, planVars>>

Next ==
    \/ __init__
    \/ find_path_begin
    \/ find_path_loop
    \/ find_path_walk

Spec == Init /\ [][Next]_vars

\* the search runs to completion once called: the caller's thread executes
\* the two loops without interruption
LiveSpec == Init /\ [][Next]_vars /\ WF_vars(find_path_loop) /\ WF_vars(find_path_walk)

NextDet ==
    \/ __init__
    \/ find_path_begin
    \/ find_path_loop
    \/ find_path_walk

SpecDet == InitDet /\ [][NextDet]_vars

NextTwice ==
    \/ __init__
    \/ find_path_begin
    \/ find_path_loop
    \/ find_path_walk

SpecTwice == InitTwice /\ [][NextTwice]_vars

NextSynth ==
    \/ __init__
    \/ \E p \in ArgPaths : gen_calls < MaxGenCalls /\ generate_begin(p)
    \/ generate_step

SpecSynth == InitSynth /\ [][NextSynth]_vars

SpecLook == InitLook /\ [][NextSynth]_vars

NextParse == __init__

NextCalls ==
    \/ __init__
    \/ find_path_begin
    \/ find_path_loop
    \/ find_path_walk
    \/ \E p \in CallPaths : gen_calls < MaxRepeat /\ generate_begin(p)
    \/ generate_step

SpecCalls == InitCalls /\ [][NextCalls]_vars

NextPlan ==
    \/ __init__
    \/ plan_find
    \/ find_path_loop
    \/ find_path_walk
    \/ plan_generate
    \/ generate_step
    \/ plan_record
    \/ plan_queue
    \/ plan_execute

SpecPlan == InitPlan /\ [][NextPlan]_vars

\* one call of generate_controller_inputs on this Pathfinder while calls on
\* another Pathfinder run in another thread
NextConc ==
    \/ __init__
    \/ \E p \in CallPaths : gen_calls < MaxGenCalls /\ generate_begin(p)
    \/ generate_step
    \/ \E n \in 1 .. MaxOtherRounds :
          Len(draws) + 2 * n <= MaxOtherDraws /\ other_begin(n)
    \/ other_step

SpecConc == InitCalls /\ [][NextConc]_vars

SpecParse == InitParse /\ [][NextParse]_vars

\* a GameFrameCalibrator and its caller
NextCal ==
    \/ GameFrameCalibrator__init__
    \/ \E n \in 0 .. MaxSamples : calibrate_begin(n)
    \/ calibrate_sample
    \/ calibrate_end
    \/ \E num_frames \in {0, 1, 3} : wait_game_frames(num_frames)
    \/ \E seconds \in {0, 5, 100} : seconds_to_frames(seconds)

SpecCal == InitCal /\ [][NextCal]_vars

\* the constructor alone, on the images of InitGrow
NextGrow == __init__

SpecGrow == InitGrow /\ [][NextGrow]_vars

(***************************************************************************)
(* Reference notions the properties are stated with.  They are written     *)
(* from the grid alone and use none of the search's operators.             *)
(***************************************************************************)
\* find_path has returned at least once and nothing is running
Returned == pc = "idle" /\ calls >= 1

Blocked(c) == c \in collision_map

\* a legal move: to one of the 8 surrounding cells, in bounds and unblocked
Move(a, b) ==
    /\ a # b
    /\ Abs(a[1] - b[1]) <= 1 /\ Abs(a[2] - b[2]) <= 1
    /\ b \in Cells(width, height)
    /\ ~Blocked(b)

\* |dx| + |dy| of one step
StepCost(a, b) == Abs(a[1] - b[1]) + Abs(a[2] - b[2])

PathCells(p) == {p[i] : i \in 1 .. Len(p)}

RECURSIVE PathCost(_)
PathCost(p) ==
    IF Len(p) < 2 THEN 0 ELSE StepCost(p[1], p[2]) + PathCost(Tail(p))

\* least total step cost from the cells of d (a function cell -> cost so far)
\* to every cell that legal moves reach: relaxation to a fixed point
RECURSIVE Cheapest(_)
Cheapest(d) ==
    LET known == DOMAIN d
        reach == known \cup {b \in Cells(width, height) : \E a \in known : Move(a, b)}
        best(b) == SetMin((IF b \in known THEN {d[b]} ELSE {})
                          \cup {d[a] + StepCost(a, b) : a \in {x \in known : Move(x, b)}})
        nd == [b \in reach |-> best(b)]
    IN IF nd = d THEN d ELSE Cheapest(nd)

CheapestFrom(s) == Cheapest([c \in {s} |-> 0])

Reachable(s, t) == t \in DOMAIN CheapestFrom(s)

(***************************************************************************)
(* C1.  No cell of a returned path, its first and last included, is a      *)
(* blocked cell of the dilated collision map.                              *)
(* The statement as claimed:                                               *)
(***************************************************************************)
C1_NoBlockedCellAtAll ==
    Returned => \A i \in 1 .. Len(ret) : ~Blocked(ret[i])

\* C1 as amended: every cell of a returned path after the first is
\* unblocked; the first is the spawn position, which is never tested.
C1_NoBlockedCellAfterStart ==
    Returned =>
        /\ \A i \in 2 .. Len(ret) : ~Blocked(ret[i])
        /\ (ret # <<>> /\ Blocked(ret[1])) => ret[1] = spawn_pos

\* a path of several cells was returned past walls, from a blocked spawn
C1_Witness ==
    /\ Returned /\ Len(ret) >= 2
    /\ Blocked(spawn_pos)
    /\ collision_map \ {spawn_pos} # {}

(***************************************************************************)
(* C2.  In a returned path consecutive waypoints differ by -1, 0 or 1 on   *)
(* each axis, and every waypoint lies within the image.                    *)
(***************************************************************************)
C2_EightConnectedInBounds ==
    Returned =>
        /\ \A i \in 1 .. Len(ret) : ret[i] \in Cells(width, height)
        /\ \A i \in 1 .. Len(ret) - 1 :
              /\ ret[i + 1][1] - ret[i][1] \in {-1, 0, 1}
              /\ ret[i + 1][2] - ret[i][2] \in {-1, 0, 1}

\* a returned path that has a diagonal and a straight step and skirts a wall
C2_Witness ==
    /\ Returned /\ Len(ret) >= 3
    /\ collision_map # {}
    /\ \E i \in 1 .. Len(ret) - 1 : StepCost(ret[i], ret[i + 1]) = 2
    /\ \E i \in 1 .. Len(ret) - 1 : StepCost(ret[i], ret[i + 1]) = 1

(***************************************************************************)
(* C3.  If no sequence of legal moves leads from the start to the goal,    *)
(* find_path returns the empty sequence, with an empty frontier and        *)
(* without raising.                                                        *)
(***************************************************************************)
C3_UnreachableReturnsEmpty ==
    (Returned /\ ~Reachable(spawn_pos, target_pos)) =>
        /\ ret = <<>>
        /\ open_set = {}
        /\ err = NoError

\* walls separate spawn and target, and the search expanded several cells
\* before it gave up
C3_Witness ==
    /\ Returned /\ ~Reachable(spawn_pos, target_pos)
    /\ ~Blocked(target_pos) /\ ~Blocked(spawn_pos)
    /\ Cardinality(DOMAIN g_score) >= 2
    /\ ret = <<>>

(***************************************************************************)
(* C4.  A returned non-empty path has the least total step cost            *)
(* (|dx| + |dy| per step) among all paths of legal moves from start to     *)
(* goal.                                                                   *)
(***************************************************************************)
C4_ReturnedPathIsCheapest ==
    (Returned /\ ret # <<>>) =>
        /\ Reachable(spawn_pos, target_pos)
        /\ PathCost(ret) = CheapestFrom(spawn_pos)[target_pos]

\* a returned path that had to detour: it costs more than the straight
\* distance between its ends
C4_Witness ==
    /\ Returned /\ ret # <<>>
    /\ PathCost(ret) > _heuristic(spawn_pos, target_pos)

(***************************************************************************)
(* C5.  find_path terminates: a search that has started returns.           *)
(***************************************************************************)
C5_SearchTerminates == (pc = "search") ~> (pc = "idle")

\* a search that ended although a cell's cost had been lowered after it was
\* first put on the frontier would need a history variable; the witness is a
\* search that ran to an empty frontier over several cells
C5_Witness ==
    /\ Returned /\ ret = <<>> /\ open_set = {}
    /\ Cardinality(DOMAIN g_score) >= 3

(***************************************************************************)
(* C6.  With spawn and target markers and no wall pixel, find_path returns *)
(* a non-empty path from the spawn centroid to the target centroid; a      *)
(* single cell when the centroids coincide.                                *)
(***************************************************************************)
C6_OpenMapPathJoinsCentroids ==
    (Returned /\ red_mask(pixels) = {}) =>
        /\ ret # <<>>
        /\ ret[1] = <<MeanInt(blue_mask(pixels), 1), MeanInt(blue_mask(pixels), 2)>>
        /\ ret[Len(ret)] = <<MeanInt(yellow_mask(pixels), 1), MeanInt(yellow_mask(pixels), 2)>>
        /\ (spawn_pos = target_pos => Len(ret) = 1)

\* an open map whose centroids are apart, searched
C6_Witness ==
    /\ Returned /\ red_mask(pixels) = {}
    /\ Len(ret) >= 3

\* an open map whose centroids coincide, searched
C6_WitnessCoincide ==
    /\ Returned /\ red_mask(pixels) = {}
    /\ spawn_pos = target_pos /\ Len(ret) = 1

(***************************************************************************)
(* C7.  On the all-free BigN x BigN grid from (0,0) to (BigN-1,BigN-1)     *)
(* find_path returns BigN waypoints, every step the diagonal (1,1), total  *)
(* cost 2(BigN-1), whatever the order of equal-priority cells.             *)
(* The statement as claimed:                                               *)
(***************************************************************************)
OpenBigGrid ==
    /\ width = BigN /\ height = BigN /\ collision_map = {}
    /\ spawn_pos = <<0, 0>> /\ target_pos = <<BigN - 1, BigN - 1>>

C7_AllDiagonal ==
    (Returned /\ OpenBigGrid) =>
        /\ Len(ret) = BigN
        /\ \A i \in 1 .. Len(ret) - 1 :
              ret[i + 1][1] - ret[i][1] = 1 /\ ret[i + 1][2] - ret[i][2] = 1
        /\ PathCost(ret) = 2 * (BigN - 1)

\* C7 as amended: the returned path runs from (0,0) to (BigN-1,BigN-1),
\* costs 2(BigN-1) and never steps back on either axis; it has between
\* BigN and 2 BigN - 1 waypoints, depending on the order of equal-priority
\* cells.
C7_CostOnly ==
    (Returned /\ OpenBigGrid) =>
        /\ ret # <<>>
        /\ ret[1] = <<0, 0>> /\ ret[Len(ret)] = <<BigN - 1, BigN - 1>>
        /\ PathCost(ret) = 2 * (BigN - 1)
        /\ Len(ret) >= BigN /\ Len(ret) <= 2 * BigN - 1
        /\ \A i \in 1 .. Len(ret) - 1 :
              /\ ret[i + 1][1] - ret[i][1] \in {0, 1}
              /\ ret[i + 1][2] - ret[i][2] \in {0, 1}

\* the open grid searched, with an answer that is not all-diagonal
C7_Witness ==
    /\ Returned /\ OpenBigGrid
    /\ Len(ret) > BigN

\* the open grid searched, with the all-diagonal answer
C7_WitnessDiagonal ==
    /\ Returned /\ OpenBigGrid
    /\ Len(ret) = BigN

GenReturned == pc = "idle" /\ gen_calls >= 1

\* the command at position i of cmds belongs to the i-th consecutive pair of
\* waypoints of p: it carries that pair's bearing and that pair's duration
OfSegment(cmds, p, i) ==
    LET dx == p[i + 1][1] - p[i][1]
        dy == p[i + 1][2] - p[i][2]
    IN /\ cmds[i].target_facing = Atan2(-dy, dx)
       /\ cmds[i].duration = MoveDuration(dx, dy)
       /\ (dx = 0 /\ dy = 0) => cmds[i].move = <<0, 0>>

\* C9: whenever generate_controller_inputs returns, the list it returns is
\* empty for a path of 0 or 1 waypoints, and for a path of 2 or more
\* waypoints it has exactly len(path) - 1 commands, the i-th of which is the
\* command of the i-th consecutive pair of waypoints.
C9_OneCommandPerSegment ==
    GenReturned =>
        IF Len(arg_path) < 2
        THEN ret_inputs = <<>>
        ELSE /\ Len(ret_inputs) = Len(arg_path) - 1
             /\ \A i \in 1 .. Len(ret_inputs) : OfSegment(ret_inputs, arg_path, i)

\* a call with three waypoints whose two segments differ in bearing and in
\* duration has returned its two commands
C9_Witness ==
    /\ GenReturned
    /\ Len(arg_path) = 3
    /\ Len(ret_inputs) = 2
    /\ ret_inputs[1].target_facing # ret_inputs[2].target_facing
    /\ ret_inputs[1].duration # ret_inputs[2].duration

\* a call with a single waypoint has returned the empty list
C9_WitnessShort ==
    /\ GenReturned
    /\ Len(arg_path) = 1
    /\ ret_inputs = <<>>

NonPositiveParameter == move_speed <= 0 \/ unit_scale <= 0

\* C10: with a zero or negative move_speed or unit_scale the synthesis loop
\* is never entered, no command is produced, no list is returned, and the
\* only error a call ends with is InvalidConfiguration.
C10_RejectedBeforeLoop ==
    NonPositiveParameter =>
        /\ pc # "synth"
        /\ inputs = <<>>
        /\ gen_calls = 0
        /\ err \in {NoError, "InvalidConfiguration"}

\* a negative move_speed: the call has returned a command whose duration is
\* the floor put on the negative quotient
C10_WitnessNegative ==
    /\ GenReturned
    /\ move_speed < 0 /\ unit_scale > 0
    /\ Len(ret_inputs) >= 1
    /\ RawDuration(arg_path[2][1] - arg_path[1][1], arg_path[2][2] - arg_path[1][2]) < 0
    /\ ret_inputs[1].duration = step_time_ms

\* move_speed = 0 with unit_scale = 1: the division inside the loop raised
C10_WitnessZero ==
    /\ move_speed = 0 /\ unit_scale = 1
    /\ pc = "raised"
    /\ err = "ZeroDivisionError"

\* move_speed = 0 and a path of one waypoint: the call returned normally
C10_WitnessShortPath ==
    /\ GenReturned
    /\ move_speed = 0
    /\ Len(arg_path) = 1
    /\ err = NoError

(***************************************************************************)
(* Claims about construction, checked under Spec.                          *)
(***************************************************************************)
Constructing == pc = "new"

NoSearchRan ==
    /\ calls = 0 /\ ret = None
    /\ open_set = {} /\ g_score = <<>> /\ came_from = <<>>

\* C11: once the constructor has ended, an image without a spawn-marker pixel
\* or without a target-marker pixel has ended it with an error raised to the
\* caller, with neither the wall list nor the collision map built and no
\* search run, then or later; an image that has both markers and no wall
\* pixel has been accepted and its collision map has no blocked cell.
C11_MissingMarkerFailsOpenMapAccepted ==
    ~Constructing =>
        /\ (blue_mask(pixels) = {} \/ yellow_mask(pixels) = {}) =>
              /\ pc = "failed" /\ err = "ValueError"
              /\ walls = None /\ collision_map = None
              /\ NoSearchRan
        /\ (blue_mask(pixels) # {} /\ yellow_mask(pixels) # {} /\ red_mask(pixels) = {}) =>
              /\ pc # "failed" /\ err = NoError
              /\ collision_map = {}

\* an image with a spawn marker and no target marker: the constructor found
\* the spawn and then failed
C11_Witness ==
    /\ pc = "failed"
    /\ spawn_pos # None
    /\ yellow_mask(pixels) = {}
    /\ red_mask(pixels) # {}

\* an image without a spawn marker has failed
C11_WitnessNoSpawn ==
    /\ pc = "failed"
    /\ blue_mask(pixels) = {}
    /\ yellow_mask(pixels) # {}

\* an open map has been accepted and searched
C11_WitnessOpenMap ==
    /\ pc = "idle" /\ calls >= 1
    /\ red_mask(pixels) = {}
    /\ collision_map = {}
    /\ Len(ret) >= 2

(***************************************************************************)
(* Claims about the commands, checked under SpecLook and SpecSynth.        *)
(***************************************************************************)
\* the commands built so far and the commands returned
Commands == {inputs[i] : i \in DOMAIN inputs} \cup {ret_inputs[i] : i \in DOMAIN ret_inputs}

InUnit(v) == -1000 <= v /\ v <= 1000

\* C12: in every command, built or returned, each component of move and of
\* look lies in [-1, 1] and the magnitude of move is at most 1 (stick values
\* in thousandths), whatever the path, the initial direction, the
\* look_sensitivity and the jitter drawn.
C12_SticksInUnitRange ==
    \A c \in Commands :
        /\ InUnit(c.move[1]) /\ InUnit(c.move[2])
        /\ InUnit(c.look[1]) /\ InUnit(c.look[2])
        /\ c.move[1] * c.move[1] + c.move[2] * c.move[2] <= 1000000

\* a returned command whose look product of lines 264-265 was past the range
\* on one axis, with look_sensitivity 3 and a diagonal turn, and whose move
\* is diagonal
C12_Witness ==
    /\ GenReturned
    /\ look_sensitivity = 3
    /\ \E i \in DOMAIN ret_inputs :
          LET c == ret_inputs[i]
              f == IF i = 1 THEN initial_direction ELSE ret_inputs[i - 1].target_facing
          IN /\ SinDiff(c.target_facing, f) * look_sensitivity > 1000
             /\ c.look[1] = 1000
             /\ c.move[1] > 0 /\ c.move[2] > 0

\* C13: every command, built or returned, has a duration of at least
\* step_time_ms, the command of a segment between two equal waypoints
\* included.
C13_DurationAtLeastStepTime ==
    \A c \in Commands : c.duration >= step_time_ms

\* a returned list with the command of a zero-distance segment, at the
\* minimum, and the command of a longer segment above it
C13_Witness ==
    /\ GenReturned
    /\ \E i \in DOMAIN ret_inputs :
          /\ arg_path[i] = arg_path[i + 1]
          /\ ret_inputs[i].duration = step_time_ms
    /\ \E i \in DOMAIN ret_inputs : ret_inputs[i].duration > step_time_ms

\* round((distance / unit_scale) / move_speed * 1000): the integer nearest to
\* the quotient (no quotient of the parameters ranged over lies halfway)
RoundedDuration(dx, dy) ==
    LET k == unit_scale * move_speed
    IN Sign(k) * (((Isqrt(4 * (dx * dx + dy * dy) * 1000000) \div Abs(k)) + 1) \div 2)

\* C14: the duration of every returned command equals
\* max(step_time_ms, round(distance / unit_scale / move_speed * 1000)), with
\* round the nearest integer, for the segment the command belongs to.
C14_DurationRounded ==
    GenReturned =>
        \A i \in DOMAIN ret_inputs :
            ret_inputs[i].duration =
                Max(step_time_ms, RoundedDuration(arg_path[i + 1][1] - arg_path[i][1],
                                                  arg_path[i + 1][2] - arg_path[i][2]))

\* move_speed 3 and the segment from (0,0) to (2,2): the quotient is 942.8...,
\* the returned duration is 942 and the nearest integer is 943
C14_Witness ==
    /\ GenReturned
    /\ move_speed = 3 /\ unit_scale = 1
    /\ arg_path = << <<0, 0>>, <<2, 2>> >>
    /\ ret_inputs[1].duration = 942
    /\ RoundedDuration(2, 2) = 943

(***************************************************************************)
(* Claims about the scene parser, checked under SpecParse.                 *)
(***************************************************************************)
Constructed == pc = "idle"

\* p is the mean of coordinate k over S with the fraction dropped
IsMeanTruncated(p, S, k) ==
    /\ p * Cardinality(S) <= SumCoord(S, k)
    /\ SumCoord(S, k) < (p + 1) * Cardinality(S)

\* p is an integer nearest to the mean of coordinate k over S (either
\* neighbour when the mean lies halfway)
IsMeanNearest(p, S, k) ==
    2 * Abs(SumCoord(S, k) - p * Cardinality(S)) <= Cardinality(S)

\* C15: after construction the spawn position is the mean x and
\* mean y of the spawn-marker pixels, each rounded to the nearest integer,
\* the target position is the same for the target-marker pixels, and both
\* lie inside the image.
C15_CentroidNearest ==
    Constructed =>
        /\ \A k \in 1 .. 2 : IsMeanNearest(spawn_pos[k], blue_mask(pixels), k)
        /\ \A k \in 1 .. 2 : IsMeanNearest(target_pos[k], yellow_mask(pixels), k)
        /\ spawn_pos \in Cells(width, height)
        /\ target_pos \in Cells(width, height)

\* C15, what the code computes instead: after construction the spawn position
\* is the mean x and mean y of the spawn-marker pixels, each with its
\* fraction dropped, the target position is the same for the target-marker
\* pixels, and both lie inside the image.
C15_CentroidTruncated ==
    Constructed =>
        /\ \A k \in 1 .. 2 : IsMeanTruncated(spawn_pos[k], blue_mask(pixels), k)
        /\ \A k \in 1 .. 2 : IsMeanTruncated(target_pos[k], yellow_mask(pixels), k)
        /\ spawn_pos \in Cells(width, height)
        /\ target_pos \in Cells(width, height)

\* three spawn-marker pixels whose mean x is two thirds above an integer:
\* the spawn position has the integer below
C15_Witness ==
    /\ Constructed
    /\ Cardinality(blue_mask(pixels)) = 3
    /\ SumCoord(blue_mask(pixels), 1) = 3 * spawn_pos[1] + 2

\* the worked example: facing north, one segment of ten cells straight up the
\* image, default sensitivity, and the call has returned
NorthExample ==
    /\ GenReturned
    /\ initial_direction = Radians(90)
    /\ look_sensitivity = 1
    /\ arg_path = << <<0, 10>>, <<0, 0>> >>

C17_EqualCallsEqualCommands ==
    (GenReturned /\ gen_calls >= 2 /\ arg_path = prev_arg_path) =>
        ret_inputs = prev_ret_inputs

\* two calls with the same path of two waypoints have returned commands
\* that differ in nothing but look
C17_Witness ==
    /\ GenReturned /\ gen_calls >= 2
    /\ arg_path = prev_arg_path
    /\ Len(ret_inputs) = 1 /\ Len(prev_ret_inputs) = 1
    /\ ret_inputs[1].look # prev_ret_inputs[1].look
    /\ ret_inputs[1].move = prev_ret_inputs[1].move
    /\ ret_inputs[1].duration = prev_ret_inputs[1].duration
    /\ ret_inputs[1].target_facing = prev_ret_inputs[1].target_facing

(***************************************************************************)
(* Claims about concurrent calls, checked under SpecConc.                  *)
(***************************************************************************)
\* the commands of the segments of p from the i-th on, facing as given, with
\* the jitter taken pair by pair from js
RECURSIVE SynthFrom(_, _, _, _)
SynthFrom(p, i, facing, js) ==
    IF i > Len(p) - 1 THEN <<>>
    ELSE LET cmd == Command(p[i], p[i + 1], facing, js[2 * i - 1], js[2 * i])
         IN <<cmd>> \o SynthFrom(p, i + 1, cmd.target_facing, js)

\* what the call returns when it runs alone from the state the generator was
\* in when it began: its rounds take the values that follow that state
AloneResult == SynthFrom(arg_path, 1, initial_direction, SubSeq(draws, rng0 + 1, Len(draws)))

\* C18: a call of generate_controller_inputs returns what it would have
\* returned running alone, whatever a call on another Pathfinder does in
\* another thread in the meantime.
C18_OtherCallHasNoEffect ==
    GenReturned => ret_inputs = AloneResult

\* a call has returned one command while the other call took values from
\* the generator in between, and the look of the command is not the look it
\* would have had alone
C18_Witness ==
    /\ GenReturned
    /\ Len(ret_inputs) = 1
    /\ Len(draws) - rng0 > 2
    /\ ret_inputs[1].look # AloneResult[1].look

\* C19: once the constructor has ended, no step of find_path or of
\* generate_controller_inputs changes the collision map, the wall list, the
\* spawn and target positions or the initial direction; and every call of
\* generate_controller_inputs that enters its loop enters it facing the
\* initial direction, so that its first command is the command of the first
\* segment as seen from the initial direction.
C19_FieldsKeptFacingFresh ==
    [][ /\ ~Constructing =>
             UNCHANGED <<collision_map, walls, spawn_pos, target_pos, initial_direction>>
        /\ (pc = "idle" /\ pc' = "synth") => current_facing' = initial_direction
        /\ (pc' = "synth" /\ Len(inputs') >= 1) =>
             inputs'[1].move =
                 _calculate_move_input(arg_path'[1], arg_path'[2], initial_direction)
      ]_vars

\* after a search, a first call that ended facing away from the initial
\* direction and a second search, a second call has entered its loop
C19_Witness ==
    /\ pc = "synth" /\ idx = 0
    /\ gen_calls = 1 /\ calls = 2
    /\ Len(ret_inputs) = 1
    /\ ret_inputs[1].target_facing # initial_direction
    /\ current_facing = initial_direction

(***************************************************************************)
(* Claims about plan_and_execute, checked under SpecPlan.                  *)
(***************************************************************************)
PlanDone == plan_pc = "done"

\* the entries of list a from the 3k-2nd on are the two holds of command k
\* of cmds, left stick first, both with the duration of the command
HoldsOfCommand(a, cmds, k) ==
    /\ a[3 * k - 2] = hold_left_stick(cmds[k].move[1], cmds[k].move[2], cmds[k].duration)
    /\ a[3 * k - 1] = hold_right_stick(cmds[k].look[1], cmds[k].look[2], cmds[k].duration)

\* list a holds the first n commands of cmds in their order: the two holds
\* of each, and one wait after each but the last of cmds
QueuedInOrder(a, cmds, n) ==
    /\ Len(a) = IF n = Len(cmds) /\ n > 0 THEN 3 * n - 1 ELSE 3 * n
    /\ \A k \in 1 .. n : HoldsOfCommand(a, cmds, k)
    /\ \A k \in 1 .. n : 3 * k <= Len(a) => a[3 * k].Type = "wait"

\* C20: while plan_and_execute queues, _actions holds the commands handled
\* so far in synthesizer order, each as a left-stick hold followed by a
\* right-stick hold of the same duration, with a wait after every command
\* but the last; and when the call has returned True, exactly one request
\* has gone out and it carries that list for all the commands.
C20_QueuedInListOrder ==
    /\ plan_pc = "queue" => QueuedInOrder(_actions, ret_inputs, act_i)
    /\ (PlanDone /\ plan_ret = TRUE) =>
          /\ Len(sent) = 1
          /\ QueuedInOrder(sent[1], ret_inputs, Len(ret_inputs))
          /\ \A j \in 1 .. Len(sent[1]) - 1 :
                (sent[1][j].Type = "holdrightstick") => sent[1][j + 1].Type = "wait"

\* a plan of two commands with different moves has been sent: five entries
C20_Witness ==
    /\ PlanDone /\ plan_ret = TRUE
    /\ Len(ret_inputs) = 2
    /\ ret_inputs[1].move # ret_inputs[2].move
    /\ Len(sent) = 1
    /\ Len(sent[1]) = 5

NothingQueuedOrSent ==
    /\ _actions = <<>>
    /\ sent = <<>>
    /\ exec_result = None

\* C21: when find_path has returned the empty path, or a path of one
\* waypoint, plan_and_execute queues nothing and sends nothing, at any step,
\* and when it has returned it has returned False.
C21_NoPathNoAction ==
    (plan_pc \in {"gen", "queue", "execute", "done"} /\ Len(ret) <= 1) =>
        /\ NothingQueuedOrSent
        /\ plan_pc \notin {"queue", "execute"}
        /\ PlanDone => plan_ret = FALSE

\* the spawn cell is the target cell: find_path returned one waypoint,
\* generate_controller_inputs returned no command, the call returned False
C21_Witness ==
    /\ PlanDone
    /\ spawn_pos = target_pos
    /\ Len(ret) = 1
    /\ gen_calls = 1 /\ ret_inputs = <<>>
    /\ plan_ret = FALSE

\* the target is walled off: find_path returned the empty path, the
\* synthesizer was not called, the call returned False
C21_WitnessNoPath ==
    /\ PlanDone
    /\ calls = 1 /\ ret = <<>>
    /\ gen_calls = 0
    /\ plan_ret = FALSE

\* C22: when plan_and_execute has returned after execute() posted the
\* actions and reported failure, plan_and_execute has returned False.
C22_FalseWhenExecuteFails ==
    (PlanDone /\ Len(sent) >= 1 /\ exec_result = FALSE) => plan_ret = FALSE

\* a path was found and its actions sent, execute() returned False and
\* plan_and_execute returned True
C22_Witness ==
    /\ PlanDone
    /\ Len(ret) >= 2
    /\ Len(sent) = 1
    /\ exec_result = FALSE
    /\ plan_ret = TRUE

(***************************************************************************)
(* Claims about the inside of the search, checked under Spec.              *)
(***************************************************************************)
Searching == pc \in {"search", "walk"}

\* following the links of came_from from c reaches the start in n steps or
\* fewer
RECURSIVE ReachesStart(_, _)
ReachesStart(c, n) ==
    \/ c = spawn_pos
    \/ /\ n > 0
       /\ c \in DOMAIN came_from
       /\ ReachesStart(came_from[c], n - 1)

NoRepeat(p) == \A i, j \in DOMAIN p : i # j => p[i] # p[j]

\* C23: at every step of find_path, and after it, the start has no
\* predecessor and the links from every linked cell lead to the start
\* within as many steps as there are linked cells (so no link lies on a
\* cycle); the path under reconstruction and the returned path visit no
\* cell twice.
C23_LinksLeadToStart ==
    (Searching \/ Returned) =>
        /\ spawn_pos \notin DOMAIN came_from
        /\ \A c \in DOMAIN came_from : ReachesStart(c, Cardinality(DOMAIN came_from))
        /\ NoRepeat(path)
        /\ Returned => NoRepeat(ret)

\* a search has returned a path of three or more cells and has left links
\* two or more steps long that are not on the path
C23_Witness ==
    /\ Returned
    /\ Len(ret) >= 3
    /\ Cardinality(DOMAIN came_from) >= 4
    /\ \E c \in DOMAIN came_from \ PathCells(ret) : came_from[c] # spawn_pos

\* the cells extracted from the frontier so far in this search: every cell
\* enters open_set when it gets its first cost (lines 149-151, 175-177), so
\* a cell with a cost that is not in open_set has been removed from it
Extracted == DOMAIN g_score \ open_set

\* C29: in every round of the search loop, a cell already extracted from
\* the frontier keeps its g_score and stays out of open_set, so no cell is
\* extracted twice.
C29_ExtractedStaysOut ==
    [][ (pc = "search" /\ pc' = "search") =>
            \A c \in Extracted : c \notin open_set' /\ g_score'[c] = g_score[c]
      ]_vars

\* three cells have been extracted and the frontier holds a cell next to
\* one of them, whose relaxation will test that extracted cell
C29_Witness ==
    /\ pc = "search"
    /\ Cardinality(Extracted) >= 3
    /\ \E o \in open_set, c \in Extracted :
          /\ o # target_pos
          /\ c \in _get_neighbors(o)
          /\ g_score[o] + _heuristic(o, c) >= g_score[c]

(***************************************************************************)
(* Claim about the facing inside one call, checked under SpecLook.         *)
(***************************************************************************)
\* the bearing of the k-th segment of p
Bearing(p, k) == Atan2(-(p[k + 1][2] - p[k][2]), p[k + 1][1] - p[k][1])

ZeroSegment(p, k) == p[k] = p[k + 1]

\* the facing held before round k of a call whose commands so far are cmds
FacingBefore(cmds, k) == IF k = 1 THEN initial_direction ELSE cmds[k - 1].target_facing

Within(v, w, d) == v - w <= d /\ w - v <= d

\* the k-th command of cmds is the command of segment k of arg_path as seen
\* from the facing held before round k: its move is (sin, cos) of bearing
\* minus facing, or (0, 0) for a segment of no length, and its look is the
\* clamped (sin, -cos) times look_sensitivity, displaced by the jitter
FromFacingBefore(cmds, k) ==
    LET b == Bearing(arg_path, k)
        f == FacingBefore(cmds, k)
    IN /\ cmds[k].target_facing = b
       /\ cmds[k].move = IF ZeroSegment(arg_path, k) THEN <<0, 0>>
                         ELSE <<SinDiff(b, f), CosDiff(b, f)>>
       /\ Within(cmds[k].look[1], Clamp(SinDiff(b, f) * look_sensitivity), look_variation)
       /\ Within(cmds[k].look[2], Clamp(-CosDiff(b, f) * look_sensitivity), look_variation)

C24_WitnessZeroSegment ==
    /\ GenReturned
    /\ Len(ret_inputs) = 2
    /\ ZeroSegment(arg_path, 2)
    /\ Bearing(arg_path, 1) = Bearing(arg_path, 2)
    /\ ret_inputs[2].move = <<0, 0>>

(***************************************************************************)
(* Claims about the grown collision map, checked under SpecGrow.           *)
(***************************************************************************)
\* c lies on the outermost one-cell border of the grid
OnBorder(c) == c[1] \in {0, width - 1} \/ c[2] \in {0, height - 1}

Chebyshev(a, b) == Max(Abs(a[1] - b[1]), Abs(a[2] - b[2]))

\* C25: after the 3 passes a cell is blocked iff it is a wall pixel or lies
\* within Chebyshev distance 3 of a wall pixel off the border; a wall
\* pixel on the border does not grow, so that walls on the border alone
\* block their own cells only.
C25_BlockedIffNearInteriorWall ==
    Constructed =>
        /\ \A c \in Cells(width, height) :
              Blocked(c) <=> \/ c \in walls
                             \/ \E o \in walls : ~OnBorder(o) /\ Chebyshev(c, o) <= 3
        /\ (\A o \in walls : OnBorder(o)) => collision_map = walls

\* a constructed map with a wall pixel off the border and one on it: the
\* first blocks a border cell at distance 3 and leaves a cell at distance 4
\* free, the second leaves a cell next to it free
C25_Witness ==
    /\ Constructed
    /\ \E o \in walls, b \in walls, c, f, n \in Cells(width, height) :
          /\ ~OnBorder(o) /\ OnBorder(b)
          /\ OnBorder(c) /\ Chebyshev(c, o) = 3 /\ Blocked(c) /\ c \notin walls
          /\ Chebyshev(f, o) = 4 /\ ~Blocked(f)
          /\ Chebyshev(n, b) = 1 /\ ~Blocked(n)

\* C26 as stated: a cell on the border is blocked in the final map only if
\* it is a wall pixel itself.
C26_BorderBlockedOnlyIfWall ==
    Constructed => \A c \in Cells(width, height) : (OnBorder(c) /\ Blocked(c)) => c \in walls

\* a constructed map whose only wall pixel lies off the border and in which
\* a border cell is blocked
C26_Witness ==
    /\ Constructed
    /\ Cardinality(walls) = 1
    /\ \A o \in walls : ~OnBorder(o)
    /\ \E c \in Cells(width, height) : OnBorder(c) /\ Blocked(c)

(***************************************************************************)
(* Claim about the neighbours of a cell, checked under Spec.               *)
(***************************************************************************)
\* the 8 cells surrounding c
Around(c) == {<<c[1] + dx, c[2] + dy>> : dx \in {-1, 0, 1}, dy \in {-1, 0, 1}} \ {c}

\* the step from a to b is diagonal and both cells it passes between are blocked
CutsCorner(a, b) ==
    /\ a[1] # b[1] /\ a[2] # b[2]
    /\ Blocked(<<a[1], b[2]>>) /\ Blocked(<<b[1], a[2]>>)

\* C27: the cells the search has reached from an expanded cell are exactly
\* its in-bounds unblocked surrounding cells: every such cell of every
\* expanded cell holds a score no worse than the one through that cell,
\* whatever lies between them, and every cell given a predecessor is an
\* in-bounds unblocked surrounding cell of that predecessor, which was
\* expanded.
C27_NeighboursAreFreeSurroundingCells ==
    (Searching \/ Returned) =>
        /\ \A c \in Extracted : \A n \in Around(c) :
              (n \in Cells(width, height) /\ ~Blocked(n)) =>
                  /\ n \in DOMAIN g_score
                  /\ g_score[n] <= g_score[c] + StepCost(c, n)
        /\ \A n \in DOMAIN came_from :
              /\ came_from[n] \in Extracted
              /\ n \in Around(came_from[n])
              /\ n \in Cells(width, height) /\ ~Blocked(n)
        /\ DOMAIN g_score = DOMAIN came_from \cup {spawn_pos}

\* a returned path with a diagonal step between two blocked cells
C27_Witness ==
    /\ Returned
    /\ \E i \in 1 .. Len(ret) - 1 : CutsCorner(ret[i], ret[i + 1])

(***************************************************************************)
(* Claim about reachable goals, checked under Spec, where min() may hand   *)
(* back any minimal member of the frontier.                                *)
(***************************************************************************)
\* C28: when the goal differs from the start and legal moves lead from the
\* start to the goal, find_path returns a non-empty path, from the start to
\* the goal, whichever minimal cells were taken and whether or not the
\* start cell is blocked.
C28_ReachableGoalIsFound ==
    (Returned /\ spawn_pos # target_pos /\ Reachable(spawn_pos, target_pos)) =>
        /\ Len(ret) >= 2
        /\ ret[1] = spawn_pos /\ ret[Len(ret)] = target_pos

\* a search that started on a blocked cell, had a choice among minimal
\* cells of the frontier, and returned a path of three cells or more
C28_Witness ==
    /\ Returned
    /\ spawn_pos # target_pos /\ Reachable(spawn_pos, target_pos)
    /\ Blocked(spawn_pos)
    /\ Len(ret) >= 3
    /\ \E a, b \in DOMAIN f_score : a # b /\ a # spawn_pos /\ b # spawn_pos /\ f_score[a] = f_score[b]

(***************************************************************************)
(* Claim about the GameFrameCalibrator, checked under SpecCal.             *)
(***************************************************************************)
\* a method of the calibrator has been called and has ended
Ended(op) == cal_pc = "idle" /\ cal_op = op

\* in no sample of this calibrate call did a screenshot show a drop of
\* brightness_threshold or more below the sample's baseline
NoneDetected ==
    \A i \in DOMAIN seen :
        \/ seen[i][1] = None
        \/ \A k \in DOMAIN seen[i][2] :
              \/ seen[i][2][k] = None
              \/ seen[i][1][1] - seen[i][2][k][1] < brightness_threshold

Unset == frame_time_ms = None /\ input_lag_ms = None

\* C30 as stated: wait_game_frames and seconds_to_frames raise wherever no
\* calibrate call has returned, and a calibrate call in which no sample
\* detects the overlay raises and leaves both fields unset.
C30_FailedCalibrateLeavesUnset ==
    /\ cal_done = 0 => Unset
    /\ ((Ended("wait_game_frames") \/ Ended("seconds_to_frames")) /\ cal_done = 0) =>
           cal_err = "RuntimeError"
    /\ (Ended("calibrate") /\ NoneDetected) =>
           /\ cal_err = "RuntimeError"
           /\ Unset

\* C30 as amended: the same, except that a calibrate call in which no
\* sample detects the overlay leaves both fields as they were, unset only
\* if no earlier calibrate call has returned.
C30_FailedCalibrateLeavesAsBefore ==
    /\ cal_done = 0 => Unset
    /\ ((Ended("wait_game_frames") \/ Ended("seconds_to_frames")) /\ cal_done = 0) =>
           cal_err = "RuntimeError"
    /\ (Ended("calibrate") /\ NoneDetected) =>
           /\ cal_err = "RuntimeError"
           /\ IF cal_done = 0 THEN Unset
              ELSE frame_time_ms = Some(FrameTime) /\ input_lag_ms # None

\* a first calibrate call has ended whose two samples had a baseline and
\* polled screenshots, none dark enough: it raised, the fields are unset
C30_Witness ==
    /\ Ended("calibrate") /\ NoneDetected
    /\ cal_done = 0 /\ cal_ops = 1
    /\ Len(seen) = 2
    /\ \A i \in DOMAIN seen : seen[i][1] # None /\ \E k \in DOMAIN seen[i][2] : seen[i][2][k] # None
    /\ cal_err = "RuntimeError" /\ Unset

\* wait_game_frames raised after a calibrate call that raised
C30_WitnessWaitRaises ==
    /\ Ended("wait_game_frames") /\ cal_done = 0 /\ cal_ops = 2 /\ num_samples >= 1
    /\ cal_err = "RuntimeError"

\* a calibrate call in which no sample detected the overlay has ended
\* after one that returned: it raised, the fields are still set
C30_WitnessAfterSuccess ==
    /\ Ended("calibrate") /\ NoneDetected /\ num_samples >= 1
    /\ cal_done = 1
    /\ cal_err = "RuntimeError" /\ ~Unset

====
